---- MODULE Spec2Model ----
(***************************************************************************)
(* Model of the image-generation web application (src/app.py) and of the   *)
(* standalone texture service (src/static/texture_generator.py).           *)
(*                                                                         *)
(* Text that the code inspects character by character (the prompt, the     *)
(* style phrases, file names) is a sequence of one-character strings.      *)
(* Text that the code only uses as a dictionary key or compares as a whole *)
(* (style_preset, aspect_ratio, quality, messages) is a TLA+ string.       *)
(* Floating point guidance scales are kept in tenths (7.5 is 75).          *)
(***************************************************************************)
EXTENDS Integers, Sequences, FiniteSets, TLC

VARIABLES
  req,        \* the last request: the form fields of POST /generate, or
              \* the JSON body of POST /generate_texture
  payload,    \* the payload the request builder made of them
  rebuilt,    \* the payload of a second run of the builder
  provider,   \* what the provider answered to the last POST
  calls,      \* the outbound calls the last handler made
  files,      \* the image files of the generated directory
  metadata,   \* the file metadata.json of that directory
  issued,     \* the values uuid4 has returned
  generated,  \* the files that POST /generate answered with an image_url
  faults,     \* whether a write or a removal on the disk has failed so far
  workers,    \* the calls that run concurrently, each at its own step
  result      \* what the last handler answered

vars == <<req, payload, rebuilt, provider, calls, files, metadata, issued,
          generated, faults, workers, result>>

(***************************************************************************)
(* Bounds of the model.                                                    *)
(***************************************************************************)
\* A prompt of the request-builder specification is made of at most
\* MaxFrags fragments.
MaxFrags == 2
\* Number of distinct values uuid.uuid4() can return in one behaviour.
MaxUuid == 2
\* Number of entries of the metadata document found at start-up.
MaxInitEntries == 1

(***************************************************************************)
(* Python values.                                                          *)
(***************************************************************************)
\* None where the other values are TLA+ strings (dictionary keys).
None == "<None>"
\* None where the other values are character sequences (request.form.get
\* of a missing field).
NoneText == <<"<None>">>

\* bool(x) of a str-or-None value: None and '' are falsy.
Truthy(s) == s # None /\ s # ""
\* A test that only rejects a missing value.
TruthyTextNotNone(t) == t # NoneText
TruthyText(t) == t # NoneText /\ t # <<>>

(***************************************************************************)
(* str.lower() and the substring test `a in b`.                            *)
(***************************************************************************)
UpperChars ==
  <<"A","B","C","D","E","F","G","H","I","J","K","L","M",
    "N","O","P","Q","R","S","T","U","V","W","X","Y","Z">>
LowerChars ==
  <<"a","b","c","d","e","f","g","h","i","j","k","l","m",
    "n","o","p","q","r","s","t","u","v","w","x","y","z">>

LowerChar(c) ==
  IF \E i \in 1..26 : UpperChars[i] = c
    THEN LowerChars[CHOOSE i \in 1..26 : UpperChars[i] = c]
    ELSE c

Lower(t) == [i \in 1..Len(t) |-> LowerChar(t[i])]

\* sub in t
Contains(t, sub) ==
  \E i \in 0..(Len(t) - Len(sub)) :
     \A j \in 1..Len(sub) : t[i + j] = sub[j]

(***************************************************************************)
(* The request builder of generate_image_requests (app.py).                *)
(***************************************************************************)
quality_params ==
  [standard |-> [steps |-> 30], hd |-> [steps |-> 50]]

\* The table with height and width of the two widescreen ratios exchanged.
aspect_dimensions_swapped ==
  ("1:1"  :> [height |-> 1024, width |-> 1024]) @@
  ("16:9" :> [height |-> 1024, width |-> 576]) @@
  ("9:16" :> [height |-> 576,  width |-> 1024]) @@
  ("4:3"  :> [height |-> 768,  width |-> 1024]) @@
  ("3:4"  :> [height |-> 1024, width |-> 768]) @@
  ("21:9" :> [height |-> 448,  width |-> 1024])

aspect_dimensions ==
  ("1:1"  :> [height |-> 1024, width |-> 1024]) @@
  ("16:9" :> [height |-> 576,  width |-> 1024]) @@
  ("9:16" :> [height |-> 1024, width |-> 576]) @@
  ("4:3"  :> [height |-> 768,  width |-> 1024]) @@
  ("3:4"  :> [height |-> 1024, width |-> 768]) @@
  ("21:9" :> [height |-> 448,  width |-> 1024])

\* Guidance scales in tenths.
guidance_scales ==
  ("photographic" :> 60) @@ ("digital-art" :> 75) @@ ("cinematic" :> 70) @@
  ("anime" :> 70) @@ ("fantasy-art" :> 80) @@ ("neon-punk" :> 85) @@
  ("enhance" :> 55) @@ ("comic-book" :> 75) @@ ("isometric" :> 70) @@
  ("low-poly" :> 70) @@ ("origami" :> 75) @@ ("line-art" :> 70) @@
  ("watercolor" :> 65) @@ ("pixel-art" :> 80)

\* The guidance scale of the else branch (7.0).
DefaultGuidanceScale == 70

style_prefixes ==
  ("digital-art" :> <<"d","i","g","i","t","a","l"," ","a","r","t"," ","s","t","y","l","e">>) @@
  ("cinematic"   :> <<"c","i","n","e","m","a","t","i","c"," ","l","i","g","h","t","i","n","g">>) @@
  ("anime"       :> <<"a","n","i","m","e"," ","s","t","y","l","e">>) @@
  ("fantasy-art" :> <<"f","a","n","t","a","s","y"," ","a","r","t">>) @@
  ("neon-punk"   :> <<"n","e","o","n"," ","c","y","b","e","r","p","u","n","k"," ","s","t","y","l","e">>) @@
  ("comic-book"  :> <<"c","o","m","i","c"," ","b","o","o","k"," ","s","t","y","l","e">>) @@
  ("isometric"   :> <<"i","s","o","m","e","t","r","i","c"," ","v","i","e","w">>) @@
  ("low-poly"    :> <<"l","o","w"," ","p","o","l","y"," ","3","D">>) @@
  ("origami"     :> <<"o","r","i","g","a","m","i"," ","s","t","y","l","e">>) @@
  ("line-art"    :> <<"l","i","n","e"," ","a","r","t">>) @@
  ("watercolor"  :> <<"w","a","t","e","r","c","o","l","o","r"," ","p","a","i","n","t","i","n","g">>) @@
  ("pixel-art"   :> <<"p","i","x","e","l"," ","a","r","t">>)

\* The separator of f"{prompt}, {prefix}".
CommaSpace == <<",", " ">>

\* A test that compares the phrase and the prompt without lower-casing.
PrefixPresentCaseSensitive(style_preset, prompt) ==
  Contains(prompt, style_prefixes[style_preset])

\* style_prefixes[style_preset].lower() in prompt.lower()
PrefixPresent(style_preset, prompt) ==
  Contains(Lower(prompt), Lower(style_prefixes[style_preset]))

\* instance["prompt"] after the style branch.
StyledPrompt(prompt, style_preset) ==
  IF /\ style_preset \in DOMAIN guidance_scales
     /\ style_preset \in DOMAIN style_prefixes
     /\ ~ PrefixPresent(style_preset, prompt)
    THEN prompt \o CommaSpace \o style_prefixes[style_preset]
    ELSE prompt

\* A builder that sets guidance_scale only for a selected style.
GuidanceParamsNoDefault(style_preset) ==
  IF style_preset \in DOMAIN guidance_scales
    THEN [guidance_scale |-> guidance_scales[style_preset]]
    ELSE << >>

GuidanceParams(style_preset) ==
  IF style_preset \in DOMAIN guidance_scales
    THEN [guidance_scale |-> guidance_scales[style_preset]]
    ELSE [guidance_scale |-> DefaultGuidanceScale]

\* A builder that leaves height and width out for an unknown ratio.
DimensionParamsNoDefault(aspect_ratio) ==
  IF aspect_ratio \in DOMAIN aspect_dimensions
    THEN [height |-> aspect_dimensions[aspect_ratio].height,
          width  |-> aspect_dimensions[aspect_ratio].width]
    ELSE << >>

DimensionParams(aspect_ratio) ==
  IF aspect_ratio \in DOMAIN aspect_dimensions
    THEN [height |-> aspect_dimensions[aspect_ratio].height,
          width  |-> aspect_dimensions[aspect_ratio].width]
    ELSE [height |-> 1024, width |-> 1024]

\* A builder that gives an unknown quality the steps of 'standard'.
QualityParamsDefaulted(quality) ==
  IF quality \in DOMAIN quality_params
    THEN quality_params[quality]
    ELSE quality_params["standard"]

QualityParams(quality) ==
  IF quality \in DOMAIN quality_params
    THEN quality_params[quality]
    ELSE << >>

\* The dictionary `data` posted to the provider.  f @@ g keeps f's value
\* on a common key, as dict.update and item assignment do.
BuildPayload(prompt, negative_prompt, style_preset, aspect_ratio, quality) ==
  LET instance0 == IF TruthyText(negative_prompt)
                     THEN [prompt |-> prompt, negative_prompt |-> negative_prompt]
                     ELSE [prompt |-> prompt]
      instance == [instance0 EXCEPT !.prompt = StyledPrompt(prompt, style_preset)]
      parameters == GuidanceParams(style_preset) @@ DimensionParams(aspect_ratio)
                      @@ QualityParams(quality) @@ [sampleCount |-> 1]
  IN  [instances |-> <<instance>>, parameters |-> parameters]

\* The value of `payload` before any request was built.
NoPayload == [instances |-> << >>, parameters |-> << >>]

(***************************************************************************)
(* JSON values as json.loads returns them: a record of the Python type t   *)
(* and the value v.                                                        *)
(***************************************************************************)
JObj(f)  == [t |-> "dict", v |-> f]
JArr(q)  == [t |-> "list", v |-> q]
JStr(x)  == [t |-> "str", v |-> x]
JNum(n)  == [t |-> "int", v |-> n]
JBool(b) == [t |-> "bool", v |-> b]
JNull    == [t |-> "NoneType", v |-> 0]
\* The empty dictionary {}.
EmptyDict == JObj(<< >>)

\* bool(j)
JTruthy(j) ==
  CASE j.t = "dict" -> DOMAIN j.v # {}
    [] j.t = "list" -> Len(j.v) > 0
    [] j.t = "str"  -> j.v # ""
    [] j.t = "int"  -> j.v # 0
    [] j.t = "bool" -> j.v
    [] OTHER        -> FALSE

\* Whether `key in j` raises TypeError (j is not a container).
InRaises(j) == j.t \in {"int", "bool", "NoneType"}

\* `key in j` for a dict (its keys), a list (its elements) or a str (a
\* substring; the strings of this model hold no key as a substring).
HasKey(j, key) ==
  CASE j.t = "dict" -> key \in DOMAIN j.v
    [] j.t = "list" -> \E i \in 1..Len(j.v) : j.v[i].t = "str" /\ j.v[i].v = key
    [] OTHER        -> FALSE

\* j.get(key, default) of a dict.
Get(j, key, default) == IF key \in DOMAIN j.v THEN j.v[key] ELSE default

(***************************************************************************)
(* What the provider can answer.                                           *)
(***************************************************************************)
\* A base64 text: decodable to the bytes `bytes`, which are a readable
\* image or not, or not decodable (binascii.Error).
B64(bytes)    == JStr([valid |-> TRUE, bytes |-> bytes, image |-> TRUE])
B64NotImage   == JStr([valid |-> TRUE, bytes |-> "junk", image |-> FALSE])
B64Invalid    == JStr([valid |-> FALSE, bytes |-> "", image |-> FALSE])

Filtered    == JObj([filtered |-> JBool(TRUE), reason |-> JStr("violence")])
NotFiltered == JObj([filtered |-> JBool(FALSE)])

PredDirect(d) == JObj([bytesBase64Encoded |-> d])
PredImageBytes(d) == JObj([imageBytes |-> d])
PredNested(d) == JObj([image |-> JObj([bytesBase64Encoded |-> d])])
PredOther == JObj([mimeType |-> JStr("image/png")])

\* Parsed bodies of a 2xx answer.
OkBodies ==
  << JObj([predictions |-> JArr(<<PredDirect(B64("A"))>>)]),
     JObj([predictions |-> JArr(<<PredDirect(B64("A"))>>), safetyAttributes |-> Filtered]),
     JObj([predictions |-> JArr(<<PredDirect(B64("A"))>>), safetyAttributes |-> NotFiltered]),
     JObj([safetyAttributes |-> Filtered]),
     JObj([predictions |-> JArr(<< >>), safetyAttributes |-> Filtered]),
     JObj([safetyAttributes |-> NotFiltered]),
     JObj([safetyAttributes |-> JStr("blocked")]),
     EmptyDict,
     JObj([predictions |-> JArr(<<PredImageBytes(B64("A"))>>)]),
     JObj([predictions |-> JArr(<<PredNested(B64("A"))>>)]),
     JObj([predictions |-> JArr(<<B64("A")>>)]),
     JObj([predictions |-> JArr(<<PredOther>>)]),
     JObj([predictions |-> JArr(<<PredDirect(B64Invalid)>>)]),
     JObj([predictions |-> JArr(<<PredDirect(B64NotImage)>>)]),
     JObj([predictions |-> JArr(<<PredDirect(JNum(7))>>)]),
     JObj([predictions |-> JObj([count |-> JNum(1)])]),
     JObj([error |-> JObj([message |-> JStr("quota")])]),
     JObj([error |-> JStr("quota")]),
     JArr(<< >>),
     JNum(7),
     JNull >>

\* Parsed bodies of a 4xx/5xx answer.
ErrorBodies ==
  << JObj([error |-> JObj([message |-> JStr("quota")])]),
     JObj([error |-> JObj([code |-> JNum(429)])]),
     JObj([error |-> JStr("quota")]),
     EmptyDict,
     JArr(<< >>),
     JNull >>

\* No POST was made.
NoPost == [kind |-> "none", json |-> FALSE, body |-> JNull]

\* The number of calls of get_access_token and of requests.post.
Calls(tokens, posts) == [tokens |-> tokens, posts |-> posts]

\* Outcomes of requests.post followed by raise_for_status and the body's
\* parse: json is FALSE when the body is not JSON text.
PostOutcomes ==
  {[kind |-> "timeout", json |-> FALSE, body |-> JNull],
   [kind |-> "transport", json |-> FALSE, body |-> JNull],
   [kind |-> "http_error", json |-> FALSE, body |-> JNull],
   [kind |-> "ok", json |-> FALSE, body |-> JNull]}
  \cup {[kind |-> "ok", json |-> TRUE, body |-> OkBodies[i]] : i \in 1..Len(OkBodies)}
  \cup {[kind |-> "http_error", json |-> TRUE, body |-> ErrorBodies[i]] : i \in 1..Len(ErrorBodies)}

\* A client that posts a second time after a failed POST.
PostWithRetry(posts) ==
  {<<p>> : p \in posts}
    \cup {<<p, q>> : p \in {o \in posts : o.kind # "ok"}, q \in posts}

\* The answers one call of generate_image_requests receives: the function
\* calls requests.post once, outside any loop.
PostOnce(posts) == {<<p>> : p \in posts}

(***************************************************************************)
(* File names of the generated directory (static/generated, which is the   *)
(* GENERATED_FOLDER of app.py and the output_dir of texture_generator.py). *)
(***************************************************************************)
Digits == <<"1","2","3","4","5","6","7","8","9">>

\* The values uuid.uuid4() can return.
Uuids == {<<Digits[i]>> : i \in 1..MaxUuid}
\* The uuid of an image generated before start-up.
OldUuid == <<"0">>

PngExt == <<".","p","n","g">>
MetadataName == <<"m","e","t","a","d","a","t","a",".","j","s","o","n">>

\* f"generated_{uuid.uuid4()}.png"
GeneratedName(u) == <<"g","e","n","e","r","a","t","e","d","_">> \o u \o PngExt

\* f"blender_{texture_type_value}_texture.png" of the Blender add-on.
BlenderName(texture_type) ==
  <<"b","l","e","n","d","e","r","_">> \o texture_type
     \o <<"_","t","e","x","t","u","r","e">> \o PngExt

Metal == <<"m","e","t","a","l">>
HiddenName == <<".","h",".","p","n","g">>

\* str.endswith / str.startswith
EndsWith(t, suffix) ==
  /\ Len(t) >= Len(suffix)
  /\ SubSeq(t, Len(t) - Len(suffix) + 1, Len(t)) = suffix
StartsWith(t, prefix) ==
  /\ Len(t) >= Len(prefix)
  /\ SubSeq(t, 1, Len(prefix)) = prefix

(***************************************************************************)
(* The store: files maps each image file of the directory to its bytes;    *)
(* metadata is the file metadata.json of the same directory.               *)
(***************************************************************************)
\* metadata.json does not exist.
DocMissing == [exists |-> FALSE, readable |-> FALSE, json |-> FALSE, value |-> JNull]
\* metadata.json holds text that json.load rejects.
DocInvalid == [exists |-> TRUE, readable |-> TRUE, json |-> FALSE, value |-> JNull]
\* metadata.json holds the JSON value j.
Doc(j) == [exists |-> TRUE, readable |-> TRUE, json |-> TRUE, value |-> j]
\* metadata.json holds the JSON value j and open(path, 'r') raises IOError.
DocUnreadable(j) == [exists |-> TRUE, readable |-> FALSE, json |-> TRUE, value |-> j]

\* The file after open(path, 'w') and json.dump(j, f): a new file can be
\* read, an existing one keeps its permissions.
Written(doc, j) ==
  [exists |-> TRUE, readable |-> IF doc.exists THEN doc.readable ELSE TRUE,
   json |-> TRUE, value |-> j]
\* The file after a json.dump that stopped part way.
Truncated(doc) ==
  [exists |-> TRUE, readable |-> IF doc.exists THEN doc.readable ELSE TRUE,
   json |-> FALSE, value |-> JNull]

\* One entry of the document.  The timestamp 'created' is left out.
Entry(filename, prompt, operation_type, style_preset, aspect_ratio, quality) ==
  JObj([filename |-> JStr(filename), prompt |-> JStr(prompt),
        type |-> JStr(operation_type),
        style_preset |-> IF style_preset = None THEN JNull ELSE JStr(style_preset),
        aspect_ratio |-> JStr(aspect_ratio), quality |-> JStr(quality)])

\* The entry get_gallery_images synthesizes for a file found by the scan.
ScanEntry(filename) ==
  JObj([filename |-> JStr(filename), prompt |-> JStr("Unknown"),
        type |-> JStr("generated")])

\* os.path.exists(os.path.join(GENERATED_FOLDER, name))
Exists(name) ==
  \/ name \in DOMAIN files
  \/ name = MetadataName /\ metadata.exists

\* The function f without the key k / with k set to x.
Without(f, k) == [n \in DOMAIN f \ {k} |-> f[n]]
With(f, k, x) == [n \in DOMAIN f \cup {k} |-> IF n = k THEN x ELSE f[n]]

\* What is left of a file whose write stopped part way.
Partial == "partial"

\* Outcomes of open(path, 'w') followed by a write.
WriteOutcomes == {"ok", "open_fails", "write_fails"}

(***************************************************************************)
(* Results of the handlers.                                                *)
(***************************************************************************)
MsgPromptRequired == "Prompt is required"
MsgToken == "Failed to get access token. Check server logs."
MsgTimeout == "Image generation request timed out."
MsgHttpText == "HTTP {status}: {response.text}"
MsgHttpMessage == "HTTP {status}: {error.message}"
MsgNetwork == "Network or request error during generation: {e}"
MsgUnexpected == "An unexpected server error occurred during generation: {e}"
MsgNotJson == "API returned OK status but response was not valid JSON."
MsgSafety == "Generation blocked by safety filters (Reason: {reasons}). Please modify your prompt."
MsgNoPredictions == "API did not return predictions. Check logs."
MsgParse == "Failed to parse expected image data from API response."
MsgDecodeSave == "Failed to decode or save generated image: {e}"
MsgNone == ""

\* The name of no file.
NoName == << >>

\* kind is the key of the returned dictionary ("image_url", "error", ...),
\* or "exception" when the handler raised instead of returning.  filename
\* is the file a generation created, or the sanitized name a deletion was
\* asked for.  log is the diagnostic the texture service prints before it
\* returns None.
Result(op, kind, status, error, filename, images) ==
  [op |-> op, kind |-> kind, status |-> status, error |-> error,
   filename |-> filename, images |-> images, log |-> MsgNone]

NoResult == Result("none", "none", 0, MsgNone, NoName, JNull)

(***************************************************************************)
(* generate_image_requests of app.py, after the payload is built.          *)
(***************************************************************************)
\* Where the code goes after the POST: it returns an error dictionary
\* ("return"), lets an exception leave the function ("raise"), or goes on
\* to decode and save data ("save").
Stage(stage, error, data) == [stage |-> stage, error |-> error, data |-> data]

\* The except HTTPError block.  An exception raised inside it is not
\* caught by the except clauses that follow it.
AppHttpError(post) ==
  IF ~ post.json THEN Stage("return", MsgHttpText, JNull)
  ELSE IF post.body.t # "dict" THEN Stage("raise", "AttributeError", JNull)
  ELSE LET err == Get(post.body, "error", EmptyDict)
       IN  IF err.t # "dict" THEN Stage("raise", "AttributeError", JNull)
           ELSE IF "message" \in DOMAIN err.v
                  THEN Stage("return", MsgHttpMessage, JNull)
                  ELSE Stage("return", MsgHttpText, JNull)

\* The safety check of the branch taken when there are no predictions.
AppNoPredictions(response_json) ==
  IF HasKey(response_json, "safetyAttributes")
    THEN IF response_json.t # "dict" THEN Stage("return", MsgUnexpected, JNull)
         ELSE LET safety_attrs == Get(response_json, "safetyAttributes", EmptyDict)
              IN  IF safety_attrs.t # "dict" THEN Stage("return", MsgUnexpected, JNull)
                  ELSE IF JTruthy(Get(safety_attrs, "filtered", JBool(FALSE)))
                         THEN Stage("return", MsgSafety, JNull)
                         ELSE Stage("return", MsgNoPredictions, JNull)
    ELSE Stage("return", MsgNoPredictions, JNull)

\* response_json['predictions'][0]['bytesBase64Encoded']
AppExtract(response_json) ==
  LET predictions == response_json.v["predictions"]
  IN  IF /\ predictions.t = "list"
         /\ predictions.v[1].t = "dict"
         /\ "bytesBase64Encoded" \in DOMAIN predictions.v[1].v
        THEN Stage("save", MsgNone, predictions.v[1].v["bytesBase64Encoded"])
        ELSE Stage("return", MsgParse, JNull)

\* The body of a 2xx answer that parsed as JSON.
AppSuccessBody(response_json) ==
  IF InRaises(response_json) THEN Stage("return", MsgUnexpected, JNull)
  ELSE IF ~ HasKey(response_json, "predictions")
    THEN AppNoPredictions(response_json)
  ELSE IF response_json.t # "dict" THEN Stage("return", MsgUnexpected, JNull)
  ELSE IF ~ JTruthy(response_json.v["predictions"])
    THEN AppNoPredictions(response_json)
  ELSE AppExtract(response_json)

\* The try block around requests.post with its except clauses.
AppPost(post) ==
  CASE post.kind = "timeout"    -> Stage("return", MsgTimeout, JNull)
    [] post.kind = "transport"  -> Stage("return", MsgNetwork, JNull)
    [] post.kind = "http_error" -> AppHttpError(post)
    [] OTHER -> IF ~ post.json THEN Stage("return", MsgNotJson, JNull)
                ELSE AppSuccessBody(post.body)

\* base64.b64decode(image_b64_data) succeeds.
Decodes(data) == data.t = "str" /\ data.v.valid

(***************************************************************************)
(* save_image_metadata: the document after the call, and whether the call  *)
(* raised (list.append on a value that is not a list).                     *)
(***************************************************************************)
\* json.load(f) returns a value: the file opens and holds JSON text.
Loads(doc) == doc.exists /\ doc.readable /\ doc.json

\* A load that always starts from the empty list.
LoadMetadataFresh(doc) == JArr(<< >>)

\* metadata after lines 346-354.
LoadMetadata(doc) == IF Loads(doc) THEN doc.value ELSE JArr(<< >>)

\* An append that puts the new entry first.
AppendEntryFirst(items, entry) == <<entry>> \o items

AppendEntry(items, entry) == Append(items, entry)

save_image_metadata(doc, entry, wr) ==
  LET loaded == LoadMetadata(doc)
  IN  IF loaded.t # "list" THEN [raised |-> TRUE, doc |-> doc]
      ELSE [raised |-> FALSE,
            doc |-> CASE wr = "ok" -> Written(doc, JArr(AppendEntry(loaded.v, entry)))
                      [] wr = "open_fails" -> doc
                      [] OTHER -> Truncated(doc)]

(***************************************************************************)
(* POST /generate.                                                         *)
(***************************************************************************)
Fox == <<"f","o","x">>

\* Form fields of the store specification; None is a missing field.
FormPrompts == {NoneText, << >>, Fox}
FormNegatives == {NoneText}
FormRatios == {"16:9"}
FormStyles == {""}
FormQualities == {"hd"}

\* request.form.get(name, default)
FormGet(value, default) == IF value = None THEN default ELSE value

Store == <<files, metadata, issued, generated>>

\* A uuid4 that may repeat a value it returned before.
FreshUuidsAny == Uuids

\* uuid.uuid4() returns a value it has not returned before.
FreshUuids == Uuids \ issued

\* The handler answers r and the store is as it was.
Answer(r) == result' = r /\ UNCHANGED <<Store, faults>>

\* No call runs beside the handler.
NoWorkers == << >>

\* A disk operation with this outcome failed.
Failed(outcome) == outcome # "ok"

\* Lines 282-302: decode, write the image, record it, return.
AppSave(image_b64_data, prompt, style_preset, aspect_ratio, quality) ==
  \E u \in FreshUuids :
    LET unique_filename == GeneratedName(u)
        entry == Entry(unique_filename, prompt, "generation",
                       style_preset, aspect_ratio, quality)
    IN
    /\ issued' = issued \cup {u}
    /\ IF ~ Decodes(image_b64_data)
         THEN /\ result' = Result("generate", "error", 200, MsgDecodeSave, NoName, JNull)
              /\ UNCHANGED <<files, metadata, generated, faults>>
         ELSE \E wi \in WriteOutcomes :
           CASE wi = "open_fails" ->
                  /\ result' = Result("generate", "error", 200, MsgDecodeSave, NoName, JNull)
                  /\ faults' = TRUE
                  /\ UNCHANGED <<files, metadata, generated>>
             [] wi = "write_fails" ->
                  /\ result' = Result("generate", "error", 200, MsgDecodeSave, NoName, JNull)
                  /\ files' = With(files, unique_filename, Partial)
                  /\ faults' = TRUE
                  /\ UNCHANGED <<metadata, generated>>
             [] OTHER ->
                  \E wr \in WriteOutcomes :
                    LET saved == save_image_metadata(metadata, entry, wr)
                    IN  /\ files' = With(files, unique_filename, image_b64_data.v.bytes)
                        /\ metadata' = saved.doc
                        /\ faults' = (faults \/ (~ saved.raised /\ Failed(wr)))
                        /\ generated' = IF saved.raised THEN generated
                                         ELSE generated \cup {unique_filename}
                        /\ result' = IF saved.raised
                             THEN Result("generate", "error", 200, MsgUnexpected, NoName, JNull)
                             ELSE Result("generate", "image_url", 200, MsgNone, unique_filename, JNull)

HandleGenerate(posts) ==
  \E prompt \in FormPrompts, negative_prompt \in FormNegatives,
     ratio_field \in FormRatios, style_field \in FormStyles,
     quality_field \in FormQualities :
    LET aspect_ratio == FormGet(ratio_field, "1:1")
        style_form == FormGet(style_field, "")
        quality == FormGet(quality_field, "standard")
        style_preset == IF Truthy(style_form) THEN style_form ELSE None
    IN
    /\ req' = [prompt |-> prompt, negative_prompt |-> negative_prompt,
               style_preset |-> style_preset, aspect_ratio |-> aspect_ratio,
               quality |-> quality]
    /\ rebuilt' = NoPayload
    /\ UNCHANGED workers
    /\ IF ~ TruthyText(prompt)
         THEN /\ payload' = NoPayload
              /\ provider' = NoPost
              /\ calls' = Calls(0, 0)
              /\ Answer(Result("generate", "error", 200, MsgPromptRequired, NoName, JNull))
         ELSE \E token_ok \in BOOLEAN :
           IF ~ token_ok
             THEN /\ payload' = NoPayload
                  /\ provider' = NoPost
                  /\ calls' = Calls(1, 0)
                  /\ Answer(Result("generate", "error", 200, MsgToken, NoName, JNull))
             ELSE
               /\ payload' = BuildPayload(prompt, negative_prompt, style_preset,
                                          aspect_ratio, quality)
               /\ \E answers \in PostOnce(posts) :
                    LET post == answers[Len(answers)]
                        st == AppPost(post)
                    IN  /\ provider' = post
                        /\ calls' = Calls(1, Len(answers))
                        /\ CASE st.stage = "return" ->
                                  Answer(Result("generate", "error", 200, st.error, NoName, JNull))
                             [] st.stage = "raise" ->
                                  Answer(Result("generate", "exception", 500, st.error, NoName, JNull))
                             [] OTHER ->
                                  AppSave(st.data, prompt, style_preset, aspect_ratio, quality)

(***************************************************************************)
(* werkzeug.utils.secure_filename, as delete_image calls it: path          *)
(* separators become blanks, blank-separated words are joined with '_',    *)
(* characters outside [A-Za-z0-9_.-] are dropped, and leading and trailing *)
(* '.' and '_' are stripped.                                               *)
(***************************************************************************)
SafeChars ==
  {UpperChars[i] : i \in 1..26} \cup {LowerChars[i] : i \in 1..26}
    \cup {Digits[i] : i \in 1..9} \cup {"0", "_", ".", "-"}

RECURSIVE StripLeft(_, _)
StripLeft(t, chars) ==
  IF t # << >> /\ Head(t) \in chars THEN StripLeft(Tail(t), chars) ELSE t

RECURSIVE StripRight(_, _)
StripRight(t, chars) ==
  IF t # << >> /\ t[Len(t)] \in chars
    THEN StripRight(SubSeq(t, 1, Len(t) - 1), chars) ELSE t

Strip(t, chars) == StripRight(StripLeft(t, chars), chars)

\* "_".join(t.split())
RECURSIVE JoinWords(_)
JoinWords(t) ==
  LET s == StripLeft(t, {" "})
  IN  IF s = << >> THEN << >>
      ELSE IF Head(s) # " " /\ Len(s) > 1 /\ s[2] = " "
             THEN IF StripLeft(Tail(s), {" "}) = << >>
                    THEN <<Head(s)>>
                    ELSE <<Head(s), "_">> \o JoinWords(Tail(s))
             ELSE <<Head(s)>> \o JoinWords(Tail(s))

\* A sanitizer that leaves the name as it came.
secure_filename_identity(filename) == filename

secure_filename(filename) ==
  LET blanks == [i \in 1..Len(filename) |->
                   IF filename[i] = "/" THEN " " ELSE filename[i]]
      joined == JoinWords(blanks)
      ascii == SelectSeq(joined, LAMBDA c : c \in SafeChars)
  IN  Strip(ascii, {".", "_"})

(***************************************************************************)
(* POST /api/gallery/delete/<filename>.                                    *)
(***************************************************************************)
MsgNoFilename == "No filename provided"
MsgNotFound == "File not found"
MsgDeleteFailed == "{str(e)}"

\* The file names a client asks to delete.
DeleteRequests ==
  {GeneratedName(u) : u \in Uuids \cup {OldUuid}}
    \cup {BlenderName(Metal), HiddenName, MetadataName, <<".", ".">>,
          <<" ">> \o GeneratedName(OldUuid)}

\* os.path.join(GENERATED_FOLDER, '') is the directory itself.
IsDirectory(name) == name = << >>

\* [item for item in metadata if item.get('filename') != filename] raises
\* when metadata cannot be iterated or an item has no method get.
FilterRaises(value) ==
  CASE value.t = "list" -> \E i \in 1..Len(value.v) : value.v[i].t # "dict"
    [] value.t = "dict" -> DOMAIN value.v # {}
    [] value.t = "str"  -> value.v # ""
    [] OTHER -> TRUE

\* A filter that keeps the entry of the deleted file.
KeepsItemAlways(item, filename) == TRUE

\* item.get('filename') != filename
KeepsItem(item, filename) ==
  LET name == Get(item, "filename", JNull)
  IN  ~ (name.t = "str" /\ name.v = filename)

\* A filter that drops every entry.
FilterEntriesDropsAll(value, filename) == << >>

FilterEntries(value, filename) ==
  IF value.t = "list"
    THEN SelectSeq(value.v, LAMBDA item : KeepsItem(item, filename))
    ELSE << >>

\* Lines 483-502, once the path is known to exist.
DeleteExisting(filename) ==
  \E removed \in BOOLEAN :
    IF ~ removed \/ IsDirectory(filename)
      THEN /\ result' = Result("delete", "error", 500, MsgDeleteFailed, filename, JNull)
           /\ faults' = (faults \/ ~ IsDirectory(filename))
           /\ UNCHANGED Store
      ELSE
        LET doc == IF filename = MetadataName THEN DocMissing ELSE metadata
        IN
        /\ files' = Without(files, filename)
        /\ UNCHANGED <<issued, generated>>
        /\ IF ~ Loads(doc)
             THEN /\ metadata' = doc
                  /\ result' = Result("delete", "success", 200, MsgNone, filename, JNull)
                  /\ UNCHANGED faults
             ELSE IF FilterRaises(doc.value)
               THEN /\ metadata' = doc
                    /\ result' = Result("delete", "error", 500, MsgDeleteFailed, filename, JNull)
                    /\ UNCHANGED faults
               ELSE \E wr \in WriteOutcomes :
                      /\ faults' = (faults \/ Failed(wr))
                      /\ metadata' = CASE wr = "ok" -> Written(doc, JArr(FilterEntries(doc.value, filename)))
                                       [] wr = "open_fails" -> doc
                                       [] OTHER -> Truncated(doc)
                      /\ result' = Result("delete", "success", 200, MsgNone, filename, JNull)

delete_image ==
  \E raw \in DeleteRequests :
    /\ UNCHANGED <<req, payload, rebuilt, provider, calls, workers>>
    /\ IF raw = << >>
         THEN Answer(Result("delete", "error", 400, MsgNoFilename, NoName, JNull))
         ELSE LET filename == secure_filename(raw)
              IN  IF ~ (Exists(filename) \/ IsDirectory(filename))
                    THEN Answer(Result("delete", "error", 404, MsgNotFound, filename, JNull))
                    ELSE DeleteExisting(filename)

(***************************************************************************)
(* GET /static/generated.                                                  *)
(***************************************************************************)
\* The sequences that list every element of S once.
RECURSIVE Orderings(_)
Orderings(S) ==
  IF S = {} THEN {<< >>}
  ELSE UNION {{<<x>> \o q : q \in Orderings(S \ {x})} : x \in S}

\* A scan that lists the hidden files as well.
ScannedWithHidden == {n \in DOMAIN files : EndsWith(n, PngExt)}

\* generated_dir.glob('*.png'), less the names that start with '.'.
Scanned == {n \in DOMAIN files : EndsWith(n, PngExt) /\ ~ StartsWith(n, <<".">>)}

\* The lists get_gallery_images can return; the scan lists the files in
\* directory order.
get_gallery_images ==
  IF Loads(metadata)
    THEN {metadata.value}
    ELSE {JArr([i \in 1..Len(q) |-> ScanEntry(q[i])]) : q \in Orderings(Scanned)}

get_gallery ==
  \E images \in get_gallery_images :
    /\ Answer(Result("gallery", "images", 200, MsgNone, NoName, images))
    /\ UNCHANGED <<req, payload, rebuilt, provider, calls, workers>>

(***************************************************************************)
(* The texture service: POST /generate_texture and its                     *)
(* generate_image_requests (texture_generator.py).                         *)
(***************************************************************************)
MsgMissingField == "Missing 'prompt' or 'output_filename' in request."
MsgInvalidFilename == "Invalid output filename."
MsgTextureFailed == "Failed to generate texture."

\* What generate_image_requests of the texture service prints before it
\* returns None.
LogToken == "Failed to get access token. Aborting generation."
LogApiError == "API Error in Response: {error_message}"
LogExtract == "Error extracting image data from response: {e}"
LogProcess == "Error processing image: {e}"
LogTimeout == "Error: API request timed out after 120 seconds."
LogHttp == "Error: HTTP Error occurred: {e}"
LogRequest == "Error: API request failed: {e}"
\* The body of a 2xx answer is not JSON: response.json() raises an error
\* that the RequestException clause or the JSONDecodeError clause catches,
\* depending on the version of requests.
LogNotJson == "Error: API request failed: {e} / Error decoding JSON response: {e}"

\* The 500 answer of generate_texture after generate_image_requests
\* printed log and returned None.
TextureFailed(log) ==
  [Result("generate_texture", "error", 500, MsgTextureFailed, NoName, JNull)
     EXCEPT !.log = log]

\* The characters of "<>:\"/\\|?*".
ForbiddenChars == {"<", ">", ":", "\"", "/", "\\", "|", "?", "*"}

\* What Image.alpha_composite and final_image.save write for an image.
Flattened(bytes) == "flat" \o bytes

\* The values request.get_json() returns.
TextureRequests ==
  << JObj([prompt |-> JStr(Fox), output_filename |-> JStr(BlenderName(Metal))]),
     JObj([prompt |-> JStr(Fox), output_filename |-> JStr(GeneratedName(OldUuid))]),
     JObj([prompt |-> JStr(Fox), output_filename |-> JStr(<<"a","/","b">> \o PngExt)]),
     JObj([prompt |-> JStr(Fox), output_filename |-> JStr(<<"t",".","j","p","g">>)]),
     JObj([prompt |-> JStr(Fox), output_filename |-> JNum(7)]),
     JObj([prompt |-> JStr(Fox)]),
     JObj([output_filename |-> JStr(BlenderName(Metal))]),
     JNull >>

\* bool(x) of a request field whose text is a character sequence.
FieldTruthy(j) == IF j.t = "str" THEN j.v # << >> ELSE JTruthy(j)

\* The try block of lines 95-118: the extracted value, or a caught
\* KeyError / IndexError / TypeError ("return").
TextureExtract(response_json) ==
  IF ~ HasKey(response_json, "predictions") THEN Stage("return", LogExtract, JNull)
  ELSE IF response_json.t # "dict" THEN Stage("return", LogExtract, JNull)
  ELSE LET predictions == response_json.v["predictions"]
       IN  IF ~ JTruthy(predictions) THEN Stage("return", LogExtract, JNull)
           ELSE IF predictions.t # "list" THEN Stage("return", LogExtract, JNull)
           ELSE LET first == predictions.v[1]
                IN  IF first.t # "dict" THEN Stage("save", MsgNone, first)
                    ELSE IF "bytesBase64Encoded" \in DOMAIN first.v
                      THEN Stage("save", MsgNone, first.v["bytesBase64Encoded"])
                    ELSE IF "imageBytes" \in DOMAIN first.v
                      THEN Stage("save", MsgNone, first.v["imageBytes"])
                    ELSE IF "image" \in DOMAIN first.v /\ first.v["image"].t = "dict"
                      THEN Stage("save", MsgNone, Get(first.v["image"], "bytesBase64Encoded", JNull))
                    ELSE Stage("save", MsgNone, first)

\* Lines 85-92 and the extraction: 'error' in response_json raises
\* TypeError for a body that is not a container, and
\* response_json['error'].get raises for an error that is not a dict;
\* no except clause of the function catches either.
TextureSuccessBody(response_json) ==
  IF InRaises(response_json) THEN Stage("raise", "TypeError", JNull)
  ELSE IF HasKey(response_json, "error")
    THEN IF response_json.t # "dict" THEN Stage("raise", "TypeError", JNull)
         ELSE IF response_json.v["error"].t # "dict"
           THEN Stage("raise", "AttributeError", JNull)
           ELSE Stage("return", LogApiError, JNull)
  ELSE TextureExtract(response_json)

TexturePost(post) ==
  CASE post.kind = "timeout"    -> Stage("return", LogTimeout, JNull)
    [] post.kind = "http_error" -> Stage("return", LogHttp, JNull)
    [] post.kind = "transport"  -> Stage("return", LogRequest, JNull)
    [] OTHER -> IF ~ post.json THEN Stage("return", LogNotJson, JNull)
                ELSE TextureSuccessBody(post.body)

\* Image.open reads the decoded bytes.
DecodesToImage(data) == data.t = "str" /\ data.v.valid /\ data.v.image

\* Lines 120-151: decode, flatten, save.
TextureSave(data, output_filename) ==
  LET failed == TextureFailed(LogProcess)
  IN
  /\ UNCHANGED <<metadata, issued, generated>>
  /\ IF ~ DecodesToImage(data)
       THEN result' = failed /\ UNCHANGED <<files, faults>>
       ELSE \E wi \in WriteOutcomes :
         CASE wi = "open_fails" ->
                result' = failed /\ faults' = TRUE /\ UNCHANGED files
           [] wi = "write_fails" ->
                /\ result' = failed
                /\ faults' = TRUE
                /\ files' = With(files, output_filename, Partial)
           [] OTHER ->
                /\ UNCHANGED faults
                /\ files' = With(files, output_filename, Flattened(data.v.bytes))
                /\ result' = Result("generate_texture", "file_path", 200, MsgNone,
                                    output_filename, JNull)

GenerateTexture(posts) ==
  \E i \in 1..Len(TextureRequests) :
    LET data == TextureRequests[i]
        NotPosted(r, tokens) ==
          provider' = NoPost /\ calls' = Calls(tokens, 0) /\ Answer(r)
    IN
    /\ req' = data
    /\ UNCHANGED <<payload, rebuilt, workers>>
    /\ IF data.t # "dict"
         THEN NotPosted(Result("generate_texture", "exception", 500, "AttributeError", NoName, JNull), 0)
       ELSE LET prompt == Get(data, "prompt", JNull)
                output_filename == Get(data, "output_filename", JNull)
            IN
            IF ~ FieldTruthy(prompt) \/ ~ FieldTruthy(output_filename)
              THEN NotPosted(Result("generate_texture", "error", 400, MsgMissingField, NoName, JNull), 0)
            ELSE IF output_filename.t # "str"
              THEN NotPosted(Result("generate_texture", "exception", 500, "AttributeError", NoName, JNull), 0)
            ELSE IF \/ ~ EndsWith(output_filename.v, PngExt)
                    \/ \E k \in 1..Len(output_filename.v) : output_filename.v[k] \in ForbiddenChars
              THEN NotPosted(Result("generate_texture", "error", 400, MsgInvalidFilename, NoName, JNull), 0)
            ELSE \E token_ok \in BOOLEAN :
              IF ~ token_ok
                THEN NotPosted(TextureFailed(LogToken), 1)
                ELSE \E answers \in PostOnce(posts) :
                  LET post == answers[Len(answers)]
                      st == TexturePost(post)
                  IN  /\ provider' = post
                      /\ calls' = Calls(1, Len(answers))
                      /\ CASE st.stage = "return" ->
                                Answer(TextureFailed(st.error))
                           [] st.stage = "raise" ->
                                Answer(Result("generate_texture", "exception", 500, st.error, NoName, JNull))
                           [] OTHER -> TextureSave(st.data, output_filename.v)

(***************************************************************************)
(* The store specification: the handlers of both services, each call one   *)
(* step, on a directory that holds what earlier runs left in it.           *)
(***************************************************************************)
NoRequest ==
  [prompt |-> NoneText, negative_prompt |-> NoneText, style_preset |-> None,
   aspect_ratio |-> None, quality |-> None]

\* The directories found at start-up: a hidden file, with or without an
\* image of an earlier run.
InitialNames == {{HiddenName}, {HiddenName, GeneratedName(OldUuid)}}
OldBytes == "old"

\* Entries an earlier run can have left: one written by
\* save_image_metadata, one synthesized by the start-up scan.
InitialEntries ==
  {Entry(GeneratedName(OldUuid), Fox, "generation", None, "1:1", "standard"),
   ScanEntry(BlenderName(Metal))}

\* The documents metadata.json can hold at start-up: none, unparseable
\* text, a JSON value that is not a list, or a list of at most
\* MaxInitEntries entries of distinct files.
InitialDocs ==
  {DocMissing, DocInvalid, DocUnreadable(JArr(<< >>)), Doc(EmptyDict), Doc(JNull),
   Doc(JObj([images |-> JArr(<< >>)]))}
  \cup {Doc(JArr(q)) : q \in UNION {Orderings(S) :
            S \in {T \in SUBSET InitialEntries : Cardinality(T) <= MaxInitEntries}}}

Init ==
  /\ req = NoRequest
  /\ payload = NoPayload
  /\ rebuilt = NoPayload
  /\ files \in UNION {[S -> {OldBytes}] : S \in InitialNames}
  /\ metadata \in InitialDocs
  /\ issued = {}
  /\ generated = {}
  /\ faults = FALSE
  /\ workers = NoWorkers
  /\ provider = NoPost
  /\ calls = Calls(0, 0)
  /\ result = NoResult

\* The answers of the provider that the store specification goes through:
\* a failure, a refusal and an image.
StorePosts ==
  {[kind |-> "timeout", json |-> FALSE, body |-> JNull],
   [kind |-> "ok", json |-> TRUE, body |-> JObj([safetyAttributes |-> Filtered])],
   [kind |-> "ok", json |-> TRUE,
    body |-> JObj([predictions |-> JArr(<<PredDirect(B64("A"))>>)])]}

handle_generate == HandleGenerate(StorePosts)

Next ==
  \/ handle_generate
  \/ delete_image
  \/ get_gallery

Spec == Init /\ [][Next]_vars

(***************************************************************************)
(* The texture specification: the texture service writes into the          *)
(* directory that POST /generate writes into.                              *)
(***************************************************************************)
InitTexture ==
  /\ req = NoRequest
  /\ payload = NoPayload
  /\ rebuilt = NoPayload
  /\ files \in UNION {[S -> {OldBytes}] :
                        S \in SUBSET {GeneratedName(OldUuid), BlenderName(Metal)}}
  /\ metadata \in {DocMissing, Doc(JArr(<< >>))}
  /\ issued = {}
  /\ generated = {}
  /\ faults = FALSE
  /\ workers = NoWorkers
  /\ provider = NoPost
  /\ calls = Calls(0, 0)
  /\ result = NoResult

generate_texture == GenerateTexture(StorePosts)

NextTexture ==
  \/ generate_texture
  \/ handle_generate

SpecTexture == InitTexture /\ [][NextTexture]_vars

(***************************************************************************)
(* The client specification: both pipelines on every answer of the         *)
(* provider, from one state of the directory.                              *)
(***************************************************************************)
InitClient ==
  /\ req = NoRequest
  /\ payload = NoPayload
  /\ rebuilt = NoPayload
  /\ files = [n \in {GeneratedName(OldUuid)} |-> OldBytes]
  /\ metadata \in {Doc(JArr(<< >>)), DocInvalid}
  /\ issued = Uuids \ {<<Digits[1]>>}
  /\ generated = {}
  /\ faults = FALSE
  /\ workers = NoWorkers
  /\ provider = NoPost
  /\ calls = Calls(0, 0)
  /\ result = NoResult

handle_generate_client == HandleGenerate(PostOutcomes)

generate_texture_client == GenerateTexture(PostOutcomes)

NextClient ==
  \/ handle_generate_client
  \/ generate_texture_client

SpecClient == InitClient /\ [][NextClient]_vars

(***************************************************************************)
(* The request-builder specification: the builder applied to every         *)
(* combination of its inputs, and applied again to the prompt it produced. *)
(***************************************************************************)
Fragments ==
  {<<"f","o","x"," ">>, <<"P","i","x","e","l">>, <<" ","A","r","t">>,
   <<"l","i","n","e"," ","a","r","t">>}

RECURSIVE Concatenations(_)
Concatenations(n) ==
  IF n = 0 THEN {<< >>}
  ELSE LET shorter == Concatenations(n - 1)
       IN  shorter \cup {q \o f : q \in shorter, f \in Fragments}

BuilderPrompts == Concatenations(MaxFrags)
BuilderNegatives == {NoneText, <<"b","l","u","r">>}
BuilderStyles == DOMAIN guidance_scales \cup {None, "", "vaporwave"}
\* None is a form field that was not sent.
BuilderRatios == DOMAIN aspect_dimensions \cup {"2:1", "", None}
BuilderQualities == {"standard", "hd", "ultra", None}

InitBuilder ==
  /\ req \in [prompt : BuilderPrompts, negative_prompt : BuilderNegatives,
              style_preset : BuilderStyles, aspect_ratio : BuilderRatios,
              quality : BuilderQualities]
  /\ payload = NoPayload
  /\ rebuilt = NoPayload
  /\ files = << >>
  /\ metadata = DocMissing
  /\ issued = {}
  /\ generated = {}
  /\ faults = FALSE
  /\ workers = NoWorkers
  /\ provider = NoPost
  /\ calls = Calls(0, 0)
  /\ result = NoResult

\* The builder runs on the request.
BuildRequest ==
  /\ payload = NoPayload
  /\ payload' = BuildPayload(req.prompt, req.negative_prompt, req.style_preset,
                             FormGet(req.aspect_ratio, "1:1"),
                             FormGet(req.quality, "standard"))
  /\ UNCHANGED <<req, rebuilt, provider, calls, files, metadata, issued, generated, faults, workers, result>>

\* The builder runs again, on the prompt of the payload it built.
BuildAgain ==
  /\ payload # NoPayload
  /\ rebuilt = NoPayload
  /\ rebuilt' = BuildPayload(payload.instances[1].prompt, req.negative_prompt,
                             req.style_preset, FormGet(req.aspect_ratio, "1:1"),
                             FormGet(req.quality, "standard"))
  /\ UNCHANGED <<req, payload, provider, calls, files, metadata, issued, generated, faults, workers, result>>

NextBuilder == BuildRequest \/ BuildAgain

SpecBuilder == InitBuilder /\ [][NextBuilder]_vars

(***************************************************************************)
(* The concurrent specification: two requests of POST /generate, served by *)
(* two threads, have written their images and call save_image_metadata.    *)
(* Each call reads the document (lines 346-354), opens it for writing,     *)
(* which empties it (line 372), and dumps its list (line 373); the steps   *)
(* of the two calls interleave.                                            *)
(***************************************************************************)
\* The two calls.
SaveCalls == {1, 2}

\* The image file and the entry of call p.
SavedName(p) == GeneratedName(<<Digits[p]>>)
SavedEntry(p) == Entry(SavedName(p), Fox, "generation", None, "1:1", "standard")

\* A call before its first step: local is its variable `metadata`,
\* after is the set of calls whose dump was complete when it read.
Worker(p) ==
  [pc |-> "read", name |-> SavedName(p), local |-> << >>, after |-> {}]

InitConcurrent ==
  /\ req = NoRequest
  /\ payload = NoPayload
  /\ rebuilt = NoPayload
  /\ files \in UNION {[S \cup {SavedName(p) : p \in SaveCalls} -> {OldBytes}] :
                        S \in InitialNames}
  /\ metadata \in InitialDocs
  /\ issued = {<<Digits[p]>> : p \in SaveCalls}
  /\ generated = {}
  /\ faults = FALSE
  /\ workers = [p \in SaveCalls |-> Worker(p)]
  /\ provider = NoPost
  /\ calls = Calls(0, 0)
  /\ result = NoResult

\* Only the document, the fault flag and the calls change.
ConcurrentFrame ==
  UNCHANGED <<req, payload, rebuilt, provider, calls, files, issued, generated, result>>

\* Lines 346-369: load the document and append the entry to the loaded
\* list; append raises when the loaded value is not a list.
SaveRead(p) ==
  /\ workers[p].pc = "read"
  /\ LET loaded == LoadMetadata(metadata)
         done == {q \in SaveCalls : workers[q].pc = "done"}
     IN  workers' = [workers EXCEPT ![p] =
           IF loaded.t # "list"
             THEN [@ EXCEPT !.pc = "raised"]
             ELSE [@ EXCEPT !.pc = "open", !.after = done,
                            !.local = AppendEntry(loaded.v, SavedEntry(p))]]
  /\ UNCHANGED <<metadata, faults>>
  /\ ConcurrentFrame

\* Line 372: open(metadata_path, 'w') empties the file, or fails.
SaveOpen(p) ==
  /\ workers[p].pc = "open"
  /\ \E opened \in BOOLEAN :
       IF opened
         THEN /\ metadata' = Truncated(metadata)
              /\ workers' = [workers EXCEPT ![p].pc = "dump"]
              /\ UNCHANGED faults
         ELSE /\ workers' = [workers EXCEPT ![p].pc = "failed"]
              /\ faults' = TRUE
              /\ UNCHANGED metadata
  /\ ConcurrentFrame

\* Line 373 and the close of the file: the list is written from offset 0.
\* When another call has written since this call emptied the file, what
\* is left is this call's text, alone or followed by the rest of the
\* other's longer text, which json.load rejects.
SaveDump(p) ==
  /\ workers[p].pc = "dump"
  /\ \E wr \in {"ok", "write_fails"} :
       IF wr = "ok"
         THEN /\ \/ metadata' = Written(metadata, JArr(workers[p].local))
                 \/ metadata.json /\ metadata' = Truncated(metadata)
              /\ workers' = [workers EXCEPT ![p].pc = "done"]
              /\ UNCHANGED faults
         ELSE /\ workers' = [workers EXCEPT ![p].pc = "failed"]
              /\ faults' = TRUE
              /\ UNCHANGED metadata
  /\ ConcurrentFrame

NextConcurrent ==
  \E p \in SaveCalls : SaveRead(p) \/ SaveOpen(p) \/ SaveDump(p)

SpecConcurrent == InitConcurrent /\ [][NextConcurrent]_vars

(***************************************************************************)
(* The race specification: a request of POST /generate that has written    *)
(* its image and calls save_image_metadata, beside a request of POST       *)
(* /api/gallery/delete for an older image.  The delete call removes the    *)
(* file (line 483), reads the document and filters it (lines 486-492),     *)
(* opens it for writing (line 494) and dumps the filtered list (line 495). *)
(***************************************************************************)
\* The save call and the delete call.
SaveCall == 1
DeleteCall == 2

\* The file the delete call was asked to delete.
DeletedName == GeneratedName(OldUuid)

DeleteWorker ==
  [pc |-> "remove", name |-> DeletedName, local |-> << >>, after |-> {}]

InitRace ==
  /\ req = NoRequest
  /\ payload = NoPayload
  /\ rebuilt = NoPayload
  /\ files = [n \in {HiddenName, DeletedName, SavedName(SaveCall)} |-> OldBytes]
  /\ metadata \in InitialDocs
  /\ issued = {<<Digits[SaveCall]>>}
  /\ generated = {}
  /\ faults = FALSE
  /\ workers = (SaveCall :> Worker(SaveCall)) @@ (DeleteCall :> DeleteWorker)
  /\ provider = NoPost
  /\ calls = Calls(0, 0)
  /\ result = NoResult

\* Line 483: os.remove(file_path) removes the file, or raises and the
\* call answers 500.
DeleteRemove(p) ==
  /\ workers[p].pc = "remove"
  /\ \E removed \in BOOLEAN :
       IF removed
         THEN /\ files' = Without(files, workers[p].name)
              /\ workers' = [workers EXCEPT ![p].pc = "read"]
              /\ UNCHANGED faults
         ELSE /\ workers' = [workers EXCEPT ![p].pc = "failed"]
              /\ faults' = TRUE
              /\ UNCHANGED files
  /\ UNCHANGED <<req, payload, rebuilt, provider, calls, metadata, issued, generated, result>>

\* Lines 486-492: a document that is missing or does not load is left
\* alone and the call is over; a loaded list is filtered; the filter
\* raises on a value that is not a list of objects.
DeleteRead(p) ==
  /\ workers[p].pc = "read"
  /\ LET done == {q \in DOMAIN workers : workers[q].pc = "done"}
     IN  workers' = [workers EXCEPT ![p] =
           IF ~ Loads(metadata)
             THEN [@ EXCEPT !.pc = "done", !.after = done]
             ELSE IF FilterRaises(metadata.value)
               THEN [@ EXCEPT !.pc = "raised"]
               ELSE [@ EXCEPT !.pc = "open", !.after = done,
                              !.local = FilterEntries(metadata.value, workers[p].name)]]
  /\ UNCHANGED <<metadata, faults>>
  /\ ConcurrentFrame

\* Line 494: open(metadata_path, 'w').
DeleteOpen(p) == SaveOpen(p)

\* Line 495: json.dump(metadata, f, indent=2).
DeleteDump(p) == SaveDump(p)

NextRace ==
  \/ SaveRead(SaveCall)
  \/ SaveOpen(SaveCall)
  \/ SaveDump(SaveCall)
  \/ DeleteRemove(DeleteCall)
  \/ DeleteRead(DeleteCall)
  \/ DeleteOpen(DeleteCall)
  \/ DeleteDump(DeleteCall)

SpecRace == InitRace /\ [][NextRace]_vars

(***************************************************************************)
(* The sequential specification: requests of POST /generate and of POST    *)
(* /api/gallery/delete, one at a time, on a directory whose metadata.json  *)
(* lists only files that are there.                                        *)
(***************************************************************************)
\* The directories of generated images at start-up.
SequentialNames == InitialNames \cup {{HiddenName, BlenderName(Metal)}}

\* Every element of the list in metadata.json is an object whose
\* 'filename' is a file of the directory.
EntriesHaveFiles(doc, dir) ==
  LET items == IF doc.exists /\ doc.json /\ doc.value.t = "list"
                 THEN doc.value.v ELSE << >>
  IN  \A i \in 1..Len(items) :
        /\ items[i].t = "dict"
        /\ "filename" \in DOMAIN items[i].v
        /\ items[i].v["filename"].t = "str"
        /\ items[i].v["filename"].v \in DOMAIN dir

InitSequential ==
  /\ req = NoRequest
  /\ payload = NoPayload
  /\ rebuilt = NoPayload
  /\ files \in UNION {[S -> {OldBytes}] : S \in SequentialNames}
  /\ metadata \in InitialDocs
  /\ EntriesHaveFiles(metadata, files)
  /\ issued = {}
  /\ generated = {}
  /\ faults = FALSE
  /\ workers = NoWorkers
  /\ provider = NoPost
  /\ calls = Calls(0, 0)
  /\ result = NoResult

NextSequential ==
  \/ handle_generate
  \/ delete_image

SpecSequential == InitSequential /\ [][NextSequential]_vars

(***************************************************************************)
(* Properties of the request builder (SpecBuilder).                        *)
(***************************************************************************)
Built == payload # NoPayload

\* The documented pairs, as <<height, width>>.
DocumentedDimensions ==
  ("1:1" :> <<1024, 1024>>) @@ ("16:9" :> <<576, 1024>>) @@
  ("9:16" :> <<1024, 576>>) @@ ("4:3" :> <<768, 1024>>) @@
  ("3:4" :> <<1024, 768>>) @@ ("21:9" :> <<448, 1024>>)

\* C1: a built payload always carries height and width; for each of the
\* six recognized aspect ratios they are the documented pair, and for any
\* other aspect_ratio they are 1024 and 1024.
C1_AspectDimensions ==
  Built =>
    /\ {"height", "width"} \subseteq DOMAIN payload.parameters
    /\ <<payload.parameters.height, payload.parameters.width>> =
         IF req.aspect_ratio \in DOMAIN DocumentedDimensions
           THEN DocumentedDimensions[req.aspect_ratio]
           ELSE <<1024, 1024>>

\* A payload built for a ratio whose height and width differ.
C1_Witness ==
  /\ Built
  /\ req.aspect_ratio = "21:9"
  /\ payload.parameters.height = 448
  /\ payload.parameters.width = 1024

\* C2: every built payload has a guidance_scale; it is the table's value
\* when style_preset is a key of the table and 7.0 when style_preset is
\* None, empty or any other value.
C2_GuidanceScale ==
  Built =>
    /\ "guidance_scale" \in DOMAIN payload.parameters
    /\ payload.parameters.guidance_scale =
         IF req.style_preset \in DOMAIN guidance_scales
           THEN guidance_scales[req.style_preset]
           ELSE 70

\* A payload built without a style: the scale is the default.
C2_Witness ==
  /\ Built
  /\ req.style_preset = None
  /\ payload.parameters.guidance_scale = 70

\* C3: the payload prompt is the request prompt, or the request prompt
\* followed by ', ' and the style's phrase; the phrase is appended only
\* when the lower-cased prompt does not contain the lower-cased phrase;
\* and the builder run on its own output prompt returns it unchanged.
C3_PrefixOnce ==
  Built =>
    LET given == req.prompt
        out == payload.instances[1].prompt
    IN  /\ \/ out = given
           \/ /\ req.style_preset \in DOMAIN style_prefixes
              /\ out = given \o <<",", " ">> \o style_prefixes[req.style_preset]
              /\ ~ Contains(Lower(given), Lower(style_prefixes[req.style_preset]))
        /\ (req.style_preset \in DOMAIN style_prefixes /\ out = given)
             => Contains(Lower(given), Lower(style_prefixes[req.style_preset]))
        /\ rebuilt # NoPayload => rebuilt.instances[1].prompt = out

\* The phrase was appended, and the second run left the prompt alone.
C3_Witness ==
  /\ Built
  /\ rebuilt # NoPayload
  /\ payload.instances[1].prompt # req.prompt
  /\ rebuilt.instances[1].prompt = payload.instances[1].prompt

(***************************************************************************)
(* Properties of the provider client (SpecClient).                         *)
(***************************************************************************)
\* The last POST was answered 2xx with a JSON object whose
\* safetyAttributes object has filtered = true.
AnsweredFiltered ==
  /\ provider.kind = "ok"
  /\ provider.json
  /\ provider.body.t = "dict"
  /\ "safetyAttributes" \in DOMAIN provider.body.v
  /\ provider.body.v["safetyAttributes"].t = "dict"
  /\ "filtered" \in DOMAIN provider.body.v["safetyAttributes"].v
  /\ provider.body.v["safetyAttributes"].v["filtered"].t = "bool"
  /\ provider.body.v["safetyAttributes"].v["filtered"].v

\* C4: whenever the provider answered POST /generate with a body whose
\* safetyAttributes.filtered is true, with or without predictions, the
\* result is the error 'blocked by safety filters'.
C4_SafetyFilterReported ==
  (result.op = "generate" /\ AnsweredFiltered)
    => (result.kind = "error" /\ result.error = MsgSafety)

\* C6: no handler of POST /generate or POST /generate_texture lets an
\* exception out; each returns an error or a success result.
C6_NoExceptionEscapes ==
  result.op \in {"generate", "generate_texture"} => result.kind # "exception"

(***************************************************************************)
(* Properties of the store (Spec).                                         *)
(***************************************************************************)
\* The items of the document when it holds a JSON array, else none.
DocItems(doc) ==
  IF doc.exists /\ doc.json /\ doc.value.t = "list" THEN doc.value.v ELSE << >>

\* The item is an entry of the file name.
Names(item, name) ==
  /\ item.t = "dict"
  /\ "filename" \in DOMAIN item.v
  /\ item.v["filename"].t = "str"
  /\ item.v["filename"].v = name

\* The number of entries of the file name in the document.
EntryCount(doc, name) ==
  Cardinality({i \in 1..Len(DocItems(doc)) : Names(DocItems(doc)[i], name)})

\* C5: while no disk operation fails, a delete call whose sanitized
\* filename names an existing file answers 200, removes that file and
\* removes from the document the one entry of that filename, if any, and
\* nothing else; a call whose filename names no file answers 404 and
\* leaves directory and document as they were.
C5_DeleteContract ==
  [][(result'.op = "delete" /\ result'.status # 400 /\ ~ faults') =>
       LET f == result'.filename
       IN  IF Exists(f)
             THEN /\ result'.status = 200
                  /\ f \in DOMAIN files
                  /\ files' = Without(files, f)
                  /\ EntryCount(metadata, f) <= 1
                  /\ metadata'.exists = metadata.exists
                  /\ DocItems(metadata') =
                       SelectSeq(DocItems(metadata), LAMBDA item : ~ Names(item, f))
             ELSE /\ result'.status = 404
                  /\ files' = files
                  /\ metadata' = metadata]_vars

\* The step wrote the whole image of a new generated file.
WroteImage(name) ==
  /\ name \notin DOMAIN files
  /\ name \in DOMAIN files'
  /\ files'[name] # Partial

\* C7: whatever metadata.json held before (nothing, unreadable or invalid
\* text, or a JSON value that is not an array), a generation that wrote its
\* image, no write to the disk failing, answers image_url and leaves
\* metadata.json a JSON array whose last element is the entry of the new
\* image.
C7_CorruptMetadataHealed ==
  [][\A u \in Uuids :
       (result'.op = "generate" /\ WroteImage(GeneratedName(u)) /\ ~ faults') =>
          /\ result'.kind = "image_url"
          /\ metadata'.exists /\ metadata'.json /\ metadata'.value.t = "list"
          /\ Len(metadata'.value.v) > 0
          /\ Names(metadata'.value.v[Len(metadata'.value.v)], GeneratedName(u))]_vars

\* The names the scan is documented to list.
NonHiddenPngs ==
  {n \in DOMAIN files : Len(n) >= 4 /\ SubSeq(n, Len(n) - 3, Len(n)) = PngExt /\ n[1] # "."}

C9_OneEntryPerImage ==
  ~ faults => \A u \in Uuids :
    EntryCount(metadata, GeneratedName(u)) =
      IF GeneratedName(u) \in generated \cap DOMAIN files THEN 1 ELSE 0

(***************************************************************************)
(* Properties of the directory shared by the two services (SpecTexture).   *)
(***************************************************************************)
\* C10: every successful generation, of POST /generate and of POST
\* /generate_texture, writes to a path that did not exist before the call.
C10_NeverOverwrites ==
  [][(result'.kind \in {"image_url", "file_path"}) =>
       result'.filename \notin DOMAIN files]_vars

(***************************************************************************)
(* Properties of the outbound calls (SpecClient).                          *)
(***************************************************************************)
\* The single POST failed: timeout, 4xx/5xx or transport failure.
PostFailed == provider.kind \in {"timeout", "http_error", "transport"}

\* C11: a call of POST /generate makes at most one POST to the provider;
\* it makes none when no access token was obtained and answers the token
\* error; after a timeout, an HTTP error or a transport failure of its
\* POST it has made that one POST only and does not answer an image.
C11_NoRetries ==
  result.op = "generate" =>
    /\ calls.posts <= 1
    /\ calls.tokens <= 1
    /\ (calls.tokens = 1 /\ provider = NoPost) =>
         (calls.posts = 0 /\ result.kind = "error" /\ result.error = MsgToken)
    /\ PostFailed => (calls.posts = 1 /\ result.kind # "image_url")

\* The POST timed out and the call answered the timeout after that one
\* POST.
C11_Witness ==
  /\ result.op = "generate"
  /\ provider.kind = "timeout"
  /\ calls.posts = 1
  /\ result.error = MsgTimeout

(***************************************************************************)
(* Properties of concurrent appends (SpecConcurrent).                      *)
(***************************************************************************)
\* Both calls have written their list back, no write failed and the
\* document can be opened for reading.
BothSaved ==
  /\ ~ faults
  /\ metadata.exists /\ metadata.readable
  /\ \A p \in SaveCalls : workers[p].pc = "done"

\* The document holds the entry of call p.
Kept(p) == EntryCount(metadata, SavedName(p)) = 1

\* The document left by the last dump was torn by the other call's.
Torn == ~ metadata.json

\* C12: once both calls have written back, no read or write of the disk
\* failing, if one call read the document after the other's write was
\* complete, the document holds the entries of both calls; if both read
\* before either wrote, it holds the entry of one call only, or the rest
\* of a torn write.
C12_LastWriterWins ==
  BothSaved =>
    IF \E p \in SaveCalls : workers[p].after # {}
      THEN \A p \in SaveCalls : Kept(p)
      ELSE Torn \/ \E p, q \in SaveCalls : Kept(p) /\ ~ Kept(q)

\* The lost update: both calls read before either wrote, both wrote, and
\* the document holds the entry of the last writer only.
C12_Witness ==
  /\ BothSaved
  /\ metadata.json
  /\ \A p \in SaveCalls : workers[p].after = {}
  /\ \E p, q \in SaveCalls : Kept(p) /\ ~ Kept(q)

\* One call read after the other's write, and both entries are there.
C12_SerialWitness ==
  /\ BothSaved
  /\ \E p \in SaveCalls : workers[p].after # {}
  /\ \A p \in SaveCalls : Kept(p)

(***************************************************************************)
(* Properties of the request validation (Spec, SpecTexture).               *)
(***************************************************************************)
\* C13: a POST /generate whose prompt is missing or empty answers the
\* error 'Prompt is required' and has fetched no token, posted nothing to
\* the provider, created no file and left the metadata document as it was.
C13_PromptRequired ==
  [][(result'.op = "generate" /\ req'.prompt \in {NoneText, << >>}) =>
       /\ result'.kind = "error"
       /\ result'.error = MsgPromptRequired
       /\ calls' = Calls(0, 0)
       /\ provider' = NoPost
       /\ payload' = NoPayload
       /\ files' = files
       /\ metadata' = metadata]_vars

\* An empty prompt was rejected in a directory that held files and a
\* document, after an earlier generation had posted to the provider.
C13_Witness ==
  /\ result.op = "generate"
  /\ req.prompt = << >>
  /\ result.error = MsgPromptRequired
  /\ calls = Calls(0, 0)
  /\ generated # {}
  /\ metadata.exists

\* The field of a request body, None when the body is not an object or
\* lacks the field.
Field(body, name) ==
  IF body.t = "dict" /\ name \in DOMAIN body.v THEN body.v[name] ELSE JNull

\* A request field that is missing or empty.
MissingOrEmpty(j) == j.t = "NoneType" \/ (j.t = "str" /\ j.v = << >>)

\* An output_filename that does not end in '.png' or holds one of the
\* characters < > : " / \ | ? *.
BadOutputName(j) ==
  \/ j.t # "str"
  \/ Len(j.v) < 4
  \/ SubSeq(j.v, Len(j.v) - 3, Len(j.v)) # <<".", "p", "n", "g">>
  \/ \E k \in 1..Len(j.v) :
       j.v[k] \in {"<", ">", ":", "\"", "/", "\\", "|", "?", "*"}

\* C14: POST /generate_texture answers 400 with an error, without a POST
\* to the provider and without writing a file, when prompt or
\* output_filename is missing or empty or output_filename is not an
\* acceptable .png name; for every other request it answers 200 with the
\* file path when the file was saved, and 500 with an error otherwise.
C14_TextureValidation ==
  [][(result'.op = "generate_texture") =>
       IF \/ MissingOrEmpty(Field(req', "prompt"))
          \/ MissingOrEmpty(Field(req', "output_filename"))
          \/ BadOutputName(Field(req', "output_filename"))
         THEN /\ result'.status = 400
              /\ result'.kind = "error"
              /\ calls'.posts = 0
              /\ files' = files
         ELSE IF result'.kind = "file_path"
           THEN /\ result'.status = 200
                /\ result'.filename = Field(req', "output_filename").v
                /\ result'.filename \in DOMAIN files'
                /\ files'[result'.filename] # Partial
           ELSE /\ result'.status = 500
                /\ result'.kind = "error"]_vars

(***************************************************************************)
(* Properties of deletion with a damaged document (Spec).                  *)
(***************************************************************************)
\* metadata.json is missing, cannot be opened or holds text that is not
\* JSON.
MissingOrCorrupt(doc) == ~ doc.exists \/ ~ doc.readable \/ ~ doc.json

\* C15: while no disk operation fails, a delete call whose sanitized
\* filename names an existing file, made when metadata.json is missing or
\* cannot be parsed, answers 200 with success, removes the file and leaves
\* metadata.json as it was.
C15_DeleteToleratesCorruptDocument ==
  [][(/\ result'.op = "delete"
      /\ Exists(result'.filename)
      /\ MissingOrCorrupt(metadata)
      /\ ~ faults') =>
       /\ result'.status = 200
       /\ result'.kind = "success"
       /\ result'.filename \notin DOMAIN files'
       /\ metadata' = metadata]_vars

(***************************************************************************)
(* Further properties of the request builder (SpecBuilder).                *)
(***************************************************************************)
\* The quality the builder is called with: the form field, 'standard'
\* when the field was not sent.
QualityGiven == IF req.quality = None THEN "standard" ELSE req.quality

\* C16: every built payload has sampleCount 1; its steps are 30 for
\* quality 'standard' and 50 for 'hd', and for any other quality the
\* parameters have no steps key.
C16_QualitySteps ==
  Built =>
    /\ "sampleCount" \in DOMAIN payload.parameters
    /\ payload.parameters.sampleCount = 1
    /\ CASE QualityGiven = "standard" ->
              "steps" \in DOMAIN payload.parameters /\ payload.parameters.steps = 30
         [] QualityGiven = "hd" ->
              "steps" \in DOMAIN payload.parameters /\ payload.parameters.steps = 50
         [] OTHER -> "steps" \notin DOMAIN payload.parameters

\* A payload built for a quality that is not in the table: no steps.
C16_Witness ==
  /\ Built
  /\ req.quality = "ultra"
  /\ "steps" \notin DOMAIN payload.parameters
  /\ payload.parameters.sampleCount = 1

\* The payload the builder makes of the request with the given ratio and
\* quality in place of the request's.
PayloadWith(aspect_ratio, quality) ==
  BuildPayload(req.prompt, req.negative_prompt, req.style_preset, aspect_ratio, quality)

RatioGiven == IF req.aspect_ratio = None THEN "1:1" ELSE req.aspect_ratio
RatioRecognized == RatioGiven \in {"1:1", "16:9", "9:16", "4:3", "3:4", "21:9"}
QualityRecognized == QualityGiven \in {"standard", "hd"}

\* The payload less its steps.
WithoutSteps(p) ==
  [p EXCEPT !.parameters =
     [k \in DOMAIN p.parameters \ {"steps"} |-> p.parameters[k]]]

\* C17 as claimed: the payload of a request whose quality is absent or
\* unrecognized is the payload of quality 'standard', and the payload of
\* a request whose aspect_ratio is absent or unrecognized is the payload
\* of aspect_ratio '1:1'.
C17_DefaultsAsClaimed ==
  Built =>
    /\ (req.quality = None \/ ~ QualityRecognized)
         => payload = PayloadWith(RatioGiven, "standard")
    /\ (req.aspect_ratio = None \/ ~ RatioRecognized)
         => payload = PayloadWith("1:1", QualityGiven)

\* C17 as amended: an absent quality gives the payload of 'standard'; an
\* unrecognized quality gives the payload of 'standard' less its steps,
\* which are left unset; an absent or unrecognized aspect_ratio gives the
\* payload of '1:1'; a payload is built in every case.
C17_Defaults ==
  Built =>
    /\ req.quality = None => payload = PayloadWith(RatioGiven, "standard")
    /\ ~ QualityRecognized =>
         /\ payload = WithoutSteps(PayloadWith(RatioGiven, "standard"))
         /\ payload # PayloadWith(RatioGiven, "standard")
    /\ (req.aspect_ratio = None \/ ~ RatioRecognized)
         => payload = PayloadWith("1:1", QualityGiven)
    /\ {"height", "width", "guidance_scale", "sampleCount"}
         \subseteq DOMAIN payload.parameters

\* A payload built for an unrecognized quality and an unrecognized ratio.
C17_Witness ==
  /\ Built
  /\ req.quality = "ultra"
  /\ req.aspect_ratio = "2:1"
  /\ "steps" \notin DOMAIN payload.parameters
  /\ payload.parameters.height = 1024

(***************************************************************************)
(* Properties of the response extractor (SpecClient).                      *)
(***************************************************************************)
\* The provider answered the last POST 2xx with a JSON object whose
\* predictions are a non-empty array.
AnsweredPredictions ==
  /\ provider.kind = "ok"
  /\ provider.json
  /\ provider.body.t = "dict"
  /\ "predictions" \in DOMAIN provider.body.v
  /\ provider.body.v["predictions"].t = "list"
  /\ Len(provider.body.v["predictions"].v) > 0

FirstPrediction == provider.body.v["predictions"].v[1]

\* The three documented shapes of a prediction.
ShapeDirect(pred) ==
  /\ pred.t = "dict"
  /\ "bytesBase64Encoded" \in DOMAIN pred.v
  /\ pred.v["bytesBase64Encoded"].t = "str"
ShapeNested(pred) ==
  /\ pred.t = "dict"
  /\ "bytesBase64Encoded" \notin DOMAIN pred.v
  /\ "image" \in DOMAIN pred.v
  /\ pred.v["image"].t = "dict"
  /\ "bytesBase64Encoded" \in DOMAIN pred.v["image"].v
  /\ pred.v["image"].v["bytesBase64Encoded"].t = "str"
ShapeString(pred) == pred.t = "str"

\* The base64 string a prediction of a documented shape carries.
Base64Of(pred) ==
  CASE ShapeDirect(pred) -> pred.v["bytesBase64Encoded"]
    [] ShapeNested(pred) -> pred.v["image"].v["bytesBase64Encoded"]
    [] OTHER -> pred

\* C18: when the first prediction has one of the three documented shapes
\* and its string is the base64 text of an image, both pipelines extract
\* that string: no disk operation failing, the call answers with the file
\* it saved, and the file holds the image the string encodes.
C18_ExtractorShapes ==
  (/\ result.op \in {"generate", "generate_texture"}
   /\ AnsweredPredictions
   /\ \/ ShapeDirect(FirstPrediction)
      \/ ShapeNested(FirstPrediction)
      \/ ShapeString(FirstPrediction)
   /\ Base64Of(FirstPrediction).v.valid
   /\ Base64Of(FirstPrediction).v.image
   /\ ~ faults)
  => /\ result.kind \in {"image_url", "file_path"}
     /\ result.filename \in DOMAIN files
     /\ files[result.filename] \in
          {Base64Of(FirstPrediction).v.bytes,
           "flat" \o Base64Of(FirstPrediction).v.bytes}

\* A prediction that matches none of the known shapes.
ShapeMismatch(pred) ==
  /\ pred.t = "dict"
  /\ "bytesBase64Encoded" \notin DOMAIN pred.v
  /\ "imageBytes" \notin DOMAIN pred.v
  /\ ~ /\ "image" \in DOMAIN pred.v
       /\ pred.v["image"].t = "dict"
       /\ "bytesBase64Encoded" \in DOMAIN pred.v["image"].v

\* A prediction of the direct shape whose string is not valid base64.
InvalidBase64(pred) ==
  /\ ShapeDirect(pred)
  /\ ~ pred.v["bytesBase64Encoded"].v.valid

\* How the last call reported its failure: the error of POST /generate,
\* the diagnostic of the texture service.
Reported == IF result.op = "generate" THEN result.error ELSE result.log

\* The reports of a shape mismatch and of a decode failure.
ShapeReports == {MsgParse, LogExtract}
DecodeReports == {MsgDecodeSave, LogProcess}

\* C19: a success body whose first prediction matches no known shape is
\* reported as a shape mismatch, one whose string is not valid base64 as
\* a decode failure, and neither as the other.
C19_ShapeAndDecodeDistinct ==
  (result.op \in {"generate", "generate_texture"} /\ AnsweredPredictions) =>
    /\ ShapeMismatch(FirstPrediction)
         => (result.kind = "error" /\ Reported \in ShapeReports)
    /\ InvalidBase64(FirstPrediction)
         => (result.kind = "error" /\ Reported \in DecodeReports)

(***************************************************************************)
(* Properties of the outcome classes of app.py (SpecClient).               *)
(***************************************************************************)
\* The body of a 4xx/5xx answer is JSON that carries error.message.
CarriesErrorMessage ==
  /\ provider.json
  /\ provider.body.t = "dict"
  /\ "error" \in DOMAIN provider.body.v
  /\ provider.body.v["error"].t = "dict"
  /\ "message" \in DOMAIN provider.body.v["error"].v

\* C20: POST /generate answers a timeout of its POST with the timeout
\* error, a 4xx/5xx with 'HTTP <status>' followed by the provider's
\* error.message when the body is JSON that carries one and by the raw
\* body text otherwise, and any other transport failure with the network
\* error.
C20_OutcomeClasses ==
  (result.op = "generate" /\ PostFailed) =>
    /\ result.kind = "error"
    /\ result.error =
         CASE provider.kind = "timeout" -> MsgTimeout
           [] provider.kind = "transport" -> MsgNetwork
           [] OTHER -> IF CarriesErrorMessage THEN MsgHttpMessage ELSE MsgHttpText

(***************************************************************************)
(* Properties of the frame of a deletion (Spec).                           *)
(***************************************************************************)
\* The items of a list that are not entries of the file name.
OtherEntries(items, name) == SelectSeq(items, LAMBDA item : ~ Names(item, name))

\* C21: while no disk operation fails, a delete call for the sanitized
\* filename f leaves every other file of the directory and its content,
\* leaves the entries of other filenames in the document in their order,
\* and does not remove metadata.json.
C21_DeleteFrame ==
  [][(result'.op = "delete" /\ ~ faults') =>
       LET f == result'.filename
       IN  /\ \A n \in DOMAIN files \ {f} :
                n \in DOMAIN files' /\ files'[n] = files[n]
           /\ OtherEntries(DocItems(metadata'), f) = OtherEntries(DocItems(metadata), f)
           /\ metadata.exists => metadata'.exists]_vars

(***************************************************************************)
(* Properties of a failed generation (Spec).                               *)
(***************************************************************************)
\* C22: a POST /generate that answers an error, no disk operation having
\* failed, leaves the generated directory with the files it had before the
\* call and no other.
C22_FailureLeavesNoFile ==
  [][(result'.op = "generate" /\ result'.kind = "error" /\ ~ faults') =>
       DOMAIN files' = DOMAIN files]_vars

(***************************************************************************)
(* Properties of a deletion beside an append (SpecRace).                   *)
(***************************************************************************)
\* Both calls are over, no write or removal failed and the document can
\* be opened for reading.
RaceOver ==
  /\ ~ faults
  /\ metadata.exists /\ metadata.readable
  /\ workers[SaveCall].pc = "done"
  /\ workers[DeleteCall].pc = "done"

\* The document has no entry of the deleted file and has the new entry.
DeletedAndAppended ==
  /\ EntryCount(metadata, DeletedName) = 0
  /\ EntryCount(metadata, SavedName(SaveCall)) = 1

\* One call read the document after the other call was over.
OneAfterTheOther ==
  \E p \in {SaveCall, DeleteCall} : workers[p].after # {}

\* C23 as claimed: in every interleaving, once both calls are over, the
\* document has no entry of the deleted file and has the new entry.
C23_DeletedStaysDeleted == RaceOver => DeletedAndAppended

\* C23 as amended: once both calls are over, the document has no entry of
\* the deleted file and has the new entry when one call read the document
\* after the other call was over.
C23_SerialDeleteAndAppend ==
  (RaceOver /\ OneAfterTheOther) => DeletedAndAppended

\* The delete call read the document after the append was written, and
\* wrote back the list with the new entry alone.
C23_Witness ==
  /\ RaceOver
  /\ workers[DeleteCall].after = {SaveCall}
  /\ workers[DeleteCall].local = <<SavedEntry(SaveCall)>>
  /\ Len(workers[SaveCall].local) = 2
  /\ DeletedAndAppended
  /\ DeletedName \notin DOMAIN files

(***************************************************************************)
(* Properties of the store under sequential requests (SpecSequential).     *)
(***************************************************************************)
\* Every entry of the metadata document names a file of the directory.
Consistent == EntriesHaveFiles(metadata, files)

\* metadata.json, when there, can be opened for reading.
DocReadable == metadata.exists => metadata.readable

\* The step is a deletion that removed its file.
DeleteRemovedFile ==
  /\ result'.op = "delete"
  /\ result'.filename \in DOMAIN files
  /\ result'.filename \notin DOMAIN files'

\* C24: from a document whose entries all name files of the directory,
\* after any sequence of generate and delete requests in which no read or
\* write of the disk fails, every entry of the document names a file of the
\* directory; and a step that leaves an entry without its file is a
\* deletion that removed the file and failed afterwards.
C24_EntriesHaveFiles ==
  /\ []((~ faults /\ DocReadable) => Consistent)
  /\ [][(Consistent /\ ~ Consistent') =>
          (DeleteRemovedFile /\ (faults' \/ ~ DocReadable))]_vars

\* A generation appended an entry, a deletion then removed an older file
\* and its entry, and the entry of the generated image is still there
\* beside its file.
C24_Witness ==
  /\ ~ faults
  /\ DocReadable
  /\ result.op = "delete"
  /\ result.status = 200
  /\ result.filename = GeneratedName(OldUuid)
  /\ result.filename \notin DOMAIN files
  /\ \E name \in generated : EntryCount(metadata, name) = 1 /\ name \in DOMAIN files
  /\ Consistent

\* A deletion removed its file and the write of the document failed: the
\* entry of the file is still in the document.
C24_OutOfSync ==
  /\ faults
  /\ result.op = "delete"
  /\ result.filename \notin DOMAIN files
  /\ EntryCount(metadata, result.filename) = 1

====
